---- MODULE Spec2Model ----
(***************************************************************************)
(* Model of the clinic booking application (src/clinic_app/app.py).        *)
(*                                                                         *)
(* The database holds the outpatient_schedules rows and the                *)
(* appointment_records rows.  Every POST /appointment request ("booking    *)
(* attempt") runs in its own SQLAlchemy session: it lists the schedules of *)
(* the requested date, calls validate_quota, calls create_appointment and  *)
(* commits.  Requests of different workers interleave between these        *)
(* database accesses.                                                      *)
(*                                                                         *)
(* A session keeps the rows it has loaded in its identity map for as long  *)
(* as the handler references them: the rows listed at line 142 stay        *)
(* referenced by `schedules`, so a later query.get() of one of them        *)
(* returns the copy read at line 142; a row that is not in the listing is  *)
(* read from the database by each query.get().                             *)
(***************************************************************************)
EXTENDS Integers, Sequences, FiniteSets, TLC

\* ---------------------------------------------------------------- bounds
\* booking requests made in a run; all of them may be in flight together
NumAttempts == 2
\* rows of outpatient_schedules
NumSchedules == 2
\* rows of members
NumMembers == 2
\* max_quota of the schedules
MaxQuota == 2

Attempts == 1..NumAttempts
ScheduleIds == 1..NumSchedules
Members == 1..NumMembers

\* a schedule_id posted by a client that no row has
MissingScheduleId == NumSchedules + 1
PostedScheduleIds == ScheduleIds \cup {MissingScheduleId}

\* date.today(): init_db puts every demo schedule on this date
Today == 1

\* the dates a request can ask for: today (the default) or another day
Dates == {Today, Today + 1}

VARIABLES
    db,        \* outpatient_schedules: schedule_id -> row
    records,   \* appointment_records in insertion (created_at) order
    att,       \* per booking attempt: position in the handler, its locals and
               \* its session's identity map (cache)
    seed,      \* current_quota of every schedule as init_db stored it
    client     \* the browser: its Flask session (member_id), the message
               \* flashed by its last login, logout or refused request, the
               \* login form it last posted and the listing it was last shown

vars == <<db, records, att, seed, client>>

\* ---------------------------------------------------------------- rows
\* remaining_quota counting the slot in use as still free
remaining_quota_inclusive(row) == row.max_quota - row.current_quota + 1

\* OutpatientSchedule.remaining_quota
remaining_quota(row) == row.max_quota - row.current_quota

\* AppointmentRecord(member_id=..., schedule_id=..., status=...)
AppointmentRecord(m, s, st) == [member_id |-> m, schedule_id |-> s, status |-> st]

IdleAttempt ==
    [pc |-> "idle", member_id |-> 0, schedule_id |-> 0,
     cache |-> <<>>, current_quota |-> 0, outcome |-> "none"]

\* get_available_schedules(target_date): the rows of that date, as the
\* session's identity map holds them (schedule_id -> current_quota read)
get_available_schedules(d) ==
    [s \in {x \in ScheduleIds : db[x].date = d} |-> db[s].current_quota]

\* the part of the listed rows that the session is asked for again: the
\* handler looks up no row but the posted schedule_id
identity_map(listed, s) ==
    [x \in DOMAIN listed \cap {s} |-> listed[x]]

\* a lookup that falls back to the first row when the id matches none
QueryGet_first(a, s) ==
    IF s \in DOMAIN att[a].cache
    THEN [found |-> TRUE, max_quota |-> db[s].max_quota,
          current_quota |-> att[a].cache[s]]
    ELSE IF s \in ScheduleIds
    THEN [found |-> TRUE, max_quota |-> db[s].max_quota,
          current_quota |-> db[s].current_quota]
    ELSE [found |-> TRUE, max_quota |-> db[1].max_quota,
          current_quota |-> db[1].current_quota]

\* OutpatientSchedule.query.get(schedule_id) in the session of attempt a:
\* the identity-map copy if the row was listed, else a SELECT, else None
QueryGet(a, s) ==
    IF s \in DOMAIN att[a].cache
    THEN [found |-> TRUE, max_quota |-> db[s].max_quota,
          current_quota |-> att[a].cache[s]]
    ELSE IF s \in ScheduleIds
    THEN [found |-> TRUE, max_quota |-> db[s].max_quota,
          current_quota |-> db[s].current_quota]
    ELSE [found |-> FALSE, max_quota |-> 0, current_quota |-> 0]

\* validate_quota that wants more than one free slot
validate_quota_strict(a) ==
    LET schedule == QueryGet(a, att[a].schedule_id)
    IN  IF ~schedule.found THEN FALSE ELSE remaining_quota(schedule) > 1

\* validate_quota(schedule_id) as called by attempt a
validate_quota(a) ==
    LET schedule == QueryGet(a, att[a].schedule_id)
    IN  IF ~schedule.found THEN FALSE ELSE remaining_quota(schedule) > 0

\* create_appointment without the check of lines 82-83
create_appointment_unchecked(a) ==
    QueryGet(a, att[a].schedule_id).found

\* create_appointment that refuses a member who already holds a booking of
\* the schedule
create_appointment_once_per_member(a) ==
    LET schedule == QueryGet(a, att[a].schedule_id)
    IN  /\ schedule.found
        /\ remaining_quota(schedule) > 0
        /\ \A i \in DOMAIN records :
              ~(/\ records[i].member_id = att[a].member_id
                /\ records[i].schedule_id = att[a].schedule_id)

\* create_appointment up to line 83: TRUE when it goes on to book
create_appointment_accepts(a) ==
    LET schedule == QueryGet(a, att[a].schedule_id)
    IN  IF ~schedule.found THEN FALSE
        ELSE IF remaining_quota(schedule) <= 0 THEN FALSE
        ELSE TRUE

\* the requests the workers are serving
InFlight == {a \in Attempts : att[a].pc \notin {"idle", "done"}}

\* a commit whose session never had the record added
committed_records_not_added(a) == records

\* a commit that reuses the row of the latest record
committed_records_overwriting(a) ==
    LET new == AppointmentRecord(att[a].member_id, att[a].schedule_id, "Success")
    IN  IF records = <<>> THEN <<new>>
        ELSE [records EXCEPT ![Len(records)] = new]

\* appointment_records after the commit of attempt a: the record built at
\* lines 86-90 and added at line 91 is inserted
committed_records(a) ==
    Append(records,
           AppointmentRecord(att[a].member_id, att[a].schedule_id, "Success"))

\* a handler in which a refusal for a missing or full schedule surfaces as
\* an unhandled exception
Finished_raising(s, o) ==
    [pc |-> "done", member_id |-> 0, schedule_id |-> s,
     cache |-> <<>>, current_quota |-> 0,
     outcome |-> IF o \in {"SlotFull", "CreateFailed"} THEN "Error500" ELSE o]

\* the request is over: its session and locals are gone, the client has the
\* outcome o of its attempt on schedule s
Finished(s, o) ==
    [pc |-> "done", member_id |-> 0, schedule_id |-> s,
     cache |-> <<>>, current_quota |-> 0, outcome |-> o]

\* AppointmentRecord.created_at of the record with appointment_id i:
\* datetime.utcnow() taken when the row is inserted, inside the write
\* transaction, so a later insert gets a later time
created_at(i) == i

\* .order_by(AppointmentRecord.created_at.desc()) over the records ids
RECURSIVE order_by_created_at_desc(_)
order_by_created_at_desc(ids) ==
    IF ids = {} THEN <<>>
    ELSE LET latest == CHOOSE i \in ids :
                          \A j \in ids : created_at(j) <= created_at(i)
         IN  <<latest>> \o order_by_created_at_desc(ids \ {latest})

\* a history listed oldest first
my_appointments_oldest_first(m) ==
    LET newest_first == order_by_created_at_desc(
                           {i \in DOMAIN records : records[i].member_id = m})
    IN  [k \in 1..Len(newest_first) |-> newest_first[Len(newest_first) + 1 - k]]

\* my_appointments for the session of member m: the appointment_ids of the
\* member's records, latest created_at first
my_appointments(m) ==
    order_by_created_at_desc({i \in DOMAIN records : records[i].member_id = m})

\* ---------------------------------------------------------------- listing
\* the values of the time_slot column ("09:00-10:00", ...), numbered in
\* ascending order of the strings
TimeSlots == ScheduleIds

\* the ids of a set of rows in the order SQLite returns them for a query
\* without ORDER BY that scans the table: by rowid, the primary key
RECURSIVE in_rowid_order(_)
in_rowid_order(ids) ==
    IF ids = {} THEN <<>>
    ELSE LET first == CHOOSE i \in ids : \A j \in ids : i <= j
         IN  <<first>> \o in_rowid_order(ids \ {first})

\* OutpatientSchedule.query.filter_by(date=target_date).all(), line 67:
\* the ids of the rows in the order of the result list
filter_by_date_all(d) ==
    in_rowid_order({s \in ScheduleIds : db[s].date = d})

\* ---------------------------------------------------------------- members
\* the email addresses a login form can carry: member m registered with
\* email m (the column is unique); one address belongs to no member
UnknownEmail == NumMembers + 1
Emails == Members \cup {UnknownEmail}

\* the passwords a login form can carry; member m chose password m
Passwords == Members

\* bcrypt.generate_password_hash(password)
generate_password_hash(p) == <<"bcrypt", p>>

\* bcrypt.check_password_hash(password_hash, password)
check_password_hash(h, p) == h = generate_password_hash(p)

\* the members table: the row of member m
Member(m) == [member_id |-> m, email |-> m,
              password_hash |-> generate_password_hash(m)]

\* a verify_login that looks at the email alone
verify_login_by_email(e, p) ==
    LET found == {m \in Members : Member(m).email = e}
    IN  IF found # {} THEN CHOOSE m \in found : TRUE ELSE 0

\* verify_login(email, password): the member_id of the member, 0 for None
verify_login(e, p) ==
    LET found == {m \in Members : Member(m).email = e}
    IN  IF found # {} /\ check_password_hash(Member(CHOOSE m \in found : TRUE).password_hash, p)
        THEN CHOOSE m \in found : TRUE
        ELSE 0

\* a browser that has sent nothing yet: empty session, no form posted
NewClient ==
    [member_id |-> 0, flash |-> "none", email |-> 0, password |-> 0,
     target_date |-> 0, schedules |-> <<>>]

\* ---------------------------------------------------------------- Init
\* the current_quota values init_db may store with a schedule: none of
\* the slots taken, all but one taken, or all taken (the demo rows are
\* 2 of 10, 8 of 8 and 1 of 5)
SeedQuotas == {0, MaxQuota - 1, MaxQuota}

\* init_db: every schedule is stored with its max_quota and an already
\* consumed current_quota, all dated today; no appointment record is stored
Init ==
    /\ db \in [ScheduleIds ->
                [date : {Today}, time_slot : TimeSlots, max_quota : {MaxQuota},
                 current_quota : SeedQuotas]]
    /\ \A s \in ScheduleIds : db[s].time_slot = s
    /\ records = <<>>
    /\ att = [a \in Attempts |-> IdleAttempt]
    /\ seed = [s \in ScheduleIds |-> db[s].current_quota]
    /\ client = NewClient

\* ---------------------------------------------------------------- actions
\* POST /appointment by the logged-in member m, lines 130-142: the handler
\* parses the date and lists that date's schedules
StartRequest(a, m, s, d) ==
    /\ att[a].pc = "idle"
    /\ IF a = 1 THEN TRUE ELSE att[a - 1].pc # "idle"
    /\ att' = [att EXCEPT ![a] =
                 [pc |-> "listed", member_id |-> m, schedule_id |-> s,
                  cache |-> identity_map(get_available_schedules(d), s),
                  current_quota |-> 0, outcome |-> "none"]]

\* the request of some logged-in member m, whichever browser sent it
Start(a, m, s, d) ==
    /\ StartRequest(a, m, s, d)
    /\ UNCHANGED <<db, records, seed, client>>

\* lines 146-147 and 156-161: validate_quota, "slot full" when it is False
Validate(a) ==
    /\ att[a].pc = "listed"
    /\ att' = [att EXCEPT ![a] =
                 IF validate_quota(a)
                 THEN [@ EXCEPT !.pc = "validated"]
                 ELSE Finished(att[a].schedule_id, "SlotFull")]
    /\ UNCHANGED <<db, records, seed, client>>

\* line 148, create_appointment lines 78-91: the checks, the in-memory
\* increment and session.add; None makes the handler flash "create failed"
Create(a) ==
    /\ att[a].pc = "validated"
    /\ att' = [att EXCEPT ![a] =
                 IF create_appointment_accepts(a)
                 THEN [@ EXCEPT !.pc = "pending", !.cache = <<>>,
                                !.current_quota =
                                    QueryGet(a, att[a].schedule_id).current_quota + 1]
                 ELSE Finished(att[a].schedule_id, "CreateFailed")]
    /\ UNCHANGED <<db, records, seed, client>>

\* line 92, db.session.commit(): one transaction writes the UPDATE of
\* current_quota and the INSERT of the record
Commit(a) ==
    /\ att[a].pc = "pending"
    /\ db' = [db EXCEPT ![att[a].schedule_id].current_quota = att[a].current_quota]
    /\ records' = committed_records(a)
    /\ att' = [att EXCEPT ![a] = Finished(att[a].schedule_id, "Success")]
    /\ UNCHANGED <<seed, client>>

\* line 92 raising (database locked, I/O error): the transaction is not
\* committed and the request ends with a server error
CommitFail(a) ==
    /\ att[a].pc = "pending"
    /\ att' = [att EXCEPT ![a] = Finished(att[a].schedule_id, "Error500")]
    /\ UNCHANGED <<db, records, seed, client>>

Next ==
    \/ \E a \in Attempts, m \in Members, s \in PostedScheduleIds, d \in Dates :
          Start(a, m, s, d)
    \/ \E a \in Attempts : Validate(a)
    \/ \E a \in Attempts : Create(a)
    \/ \E a \in Attempts : Commit(a)
    \/ \E a \in Attempts : CommitFail(a)

Spec == Init /\ [][Next]_vars

\* the server goes on with every request it took in: the worker thread of a
\* request runs validate_quota, then create_appointment, and its commit
\* either succeeds or raises
Fairness ==
    \A a \in Attempts :
        /\ WF_vars(Validate(a))
        /\ WF_vars(Create(a))
        /\ WF_vars(Commit(a) \/ CommitFail(a))

\* init_db, lines 200-225, in the pattern of its demo rows: the second
\* schedule is full, the others have room (here: one slot)
DemoInit ==
    /\ Init
    /\ \A s \in ScheduleIds :
          db[s].current_quota = IF s = 2 THEN MaxQuota ELSE MaxQuota - 1

\* two requests at a time, the least concurrency in which a request can
\* lose the slot between validate_quota and create_appointment
FairNext == Next /\ Cardinality(InFlight') <= 2

FairSpec == DemoInit /\ [][FairNext]_vars /\ Fairness

\* Requests served one at a time: a request is started only when no other
\* is being served (the "no other attempt interleaved" runs)
SeqNext == Next /\ Cardinality(InFlight') <= 1

SeqSpec == Init /\ [][SeqNext]_vars

\* ---------------------------------------------------------------- locking
\* line 9: the store is one SQLite file, and SQLite admits one writing
\* connection at a time for the whole file, whatever rows it writes.
\* db.session.commit() (line 92) is therefore three steps: the flush takes
\* the write lock with its first UPDATE, COMMIT writes and releases it,
\* and a flush that finds the lock taken waits and, when the wait runs
\* out, raises "database is locked"

\* the attempts that hold the write lock of the file
LockHolders == {b \in Attempts : att[b].pc = "flushed"}

\* line 92, the flush: UPDATE and INSERT are sent, the write lock is taken
Flush(a) ==
    /\ att[a].pc = "pending"
    /\ LockHolders = {}
    /\ att' = [att EXCEPT ![a].pc = "flushed"]
    /\ UNCHANGED <<db, records, seed, client>>

\* line 92, the COMMIT: the transaction is written, the lock is released
CommitTx(a) ==
    /\ att[a].pc = "flushed"
    /\ db' = [db EXCEPT ![att[a].schedule_id].current_quota = att[a].current_quota]
    /\ records' = committed_records(a)
    /\ att' = [att EXCEPT ![a] = Finished(att[a].schedule_id, "Success")]
    /\ UNCHANGED <<seed, client>>

\* line 92, the flush of a waits for the lock another attempt holds until
\* the busy timeout ends the wait with OperationalError
LockTimeout(a) ==
    /\ att[a].pc = "pending"
    /\ LockHolders # {}
    /\ att' = [att EXCEPT ![a] = Finished(att[a].schedule_id, "Error500")]
    /\ UNCHANGED <<db, records, seed, client>>

LockNext ==
    \/ \E a \in Attempts, m \in Members, s \in PostedScheduleIds, d \in Dates :
          Start(a, m, s, d)
    \/ \E a \in Attempts : Validate(a)
    \/ \E a \in Attempts : Create(a)
    \/ \E a \in Attempts : Flush(a)
    \/ \E a \in Attempts : CommitTx(a)
    \/ \E a \in Attempts : LockTimeout(a)

LockSpec == Init /\ [][LockNext]_vars

\* ---------------------------------------------------------------- session
\* a check that lets every request through
logged_in_always(c) == TRUE

\* line 131 and line 172: "member_id" in session
logged_in(c) == c.member_id # 0

\* a handler that tells the visitor when the email is not registered
login_message_leaky(e, p) ==
    IF verify_login(e, p) # 0 THEN "LoginOk"
    ELSE IF \E m \in Members : Member(m).email = e THEN "InvalidCredentials"
    ELSE "UnknownEmail"

\* the message the login handler flashes for the form (e, p), lines 110-117
login_message(e, p) ==
    IF verify_login(e, p) # 0 THEN "LoginOk" ELSE "InvalidCredentials"

\* POST /login, lines 106-119: a verified member is stored in the session;
\* a failed login leaves the session as it was
Login(e, p) ==
    /\ client' = [client EXCEPT
                    !.member_id = IF verify_login(e, p) # 0
                                  THEN verify_login(e, p) ELSE @,
                    !.flash = login_message(e, p),
                    !.email = e, !.password = p, !.target_date = 0, !.schedules = <<>>]
    /\ UNCHANGED <<db, records, att, seed>>

\* GET /logout, lines 124-126: session.clear()
Logout ==
    /\ client' = [NewClient EXCEPT !.flash = "LoggedOut"]
    /\ UNCHANGED <<db, records, att, seed>>

\* lines 131-133: a request without member_id in the session is answered
\* with a redirect to the login page before anything is read or written
LoginRequired(a) ==
    /\ att[a].pc = "idle"
    /\ IF a = 1 THEN TRUE ELSE att[a - 1].pc # "idle"
    /\ att' = [att EXCEPT ![a] = Finished(0, "LoginRequired")]
    /\ client' = [client EXCEPT !.flash = "LoginRequired", !.email = 0,
                                !.password = 0, !.target_date = 0, !.schedules = <<>>]
    /\ UNCHANGED <<db, records, seed>>

\* POST /appointment sent by the browser: line 131 lets it through with the
\* member_id of its session (line 148)
Book(a, s, d) ==
    IF logged_in(client)
    THEN /\ StartRequest(a, client.member_id, s, d)
         /\ client' = [client EXCEPT !.email = 0, !.password = 0,
                                     !.target_date = 0,
                                     !.schedules = <<>>]
         /\ UNCHANGED <<db, records, seed>>
    ELSE LoginRequired(a)

\* one browser that sends its next request when the previous one was
\* answered: a sequence of login, logout and booking requests
SessionNext ==
    /\ \/ InFlight = {} /\ \E e \in Emails, p \in Passwords : Login(e, p)
       \/ InFlight = {} /\ Logout
       \/ \E a \in Attempts, s \in PostedScheduleIds, d \in Dates : Book(a, s, d)
       \/ \E a \in Attempts : Validate(a)
       \/ \E a \in Attempts : Create(a)
       \/ \E a \in Attempts : Commit(a)
       \/ \E a \in Attempts : CommitFail(a)
    /\ Cardinality(InFlight') <= 1

\* init_db, lines 200-225, as it seeds the demo schedules: the second one
\* is full, the others have slots left
SessionInit ==
    /\ Init
    /\ \A s \in ScheduleIds :
          IF s = 2 THEN db[s].current_quota = MaxQuota
                   ELSE db[s].current_quota < MaxQuota

SessionSpec == SessionInit /\ [][SessionNext]_vars

\* GET /appointment?date=d, lines 131-142 and 163-167: the page shows the
\* schedules of the date in the order get_available_schedules returned them
List(d) ==
    /\ client' = IF logged_in(client)
                 THEN [client EXCEPT !.email = 0, !.password = 0,
                                     !.target_date = d,
                                     !.schedules = filter_by_date_all(d)]
                 ELSE [client EXCEPT !.flash = "LoginRequired", !.email = 0,
                                     !.password = 0, !.target_date = 0,
                                     !.schedules = <<>>]
    /\ UNCHANGED <<db, records, att, seed>>

\* lines 236-238: a clinic.db that exists is used as it is, with the
\* schedules somebody stored in it: any date, any time slot
ListInit ==
    /\ db \in [ScheduleIds ->
                [date : Dates, time_slot : TimeSlots, max_quota : {MaxQuota},
                 current_quota : SeedQuotas]]
    /\ records = <<>>
    /\ att = [a \in Attempts |-> IdleAttempt]
    /\ seed = [s \in ScheduleIds |-> db[s].current_quota]
    /\ client = NewClient

\* a browser that logs in and out and opens the booking page
ListNext ==
    \/ \E e \in Emails, p \in Passwords : Login(e, p)
    \/ Logout
    \/ \E d \in Dates : List(d)

ListSpec == ListInit /\ [][ListNext]_vars

\* the login and logout handlers alone
LoginNext ==
    \/ \E e \in Emails, p \in Passwords : Login(e, p)
    \/ Logout

LoginSpec == Init /\ [][LoginNext]_vars

\* ---------------------------------------------------------------- helpers
\* the attempts on schedule s that were started
AttemptsOn(s) == {a \in Attempts : att[a].pc # "idle" /\ att[a].schedule_id = s}

\* the attempts on schedule s that ended with outcome o
EndedWith(s, o) == {a \in AttemptsOn(s) : att[a].pc = "done" /\ att[a].outcome = o}

\* the appointment records with status Success that reference schedule s
SuccessRecords(s) ==
    {i \in DOMAIN records :
        records[i].schedule_id = s /\ records[i].status = "Success"}

\* attempt a took a step
Stepped(a) == att'[a] # att[a]

\* attempt a ended in this step
Ended(a) == att[a].pc # "done" /\ att'[a].pc = "done"

\* the outcomes in which the attempt was turned down for lack of capacity
QuotaRejections == {"SlotFull", "CreateFailed"}

\* ---------------------------------------------------------------- C1
\* C1: when more attempts than the remaining quota k were made on a
\* schedule and all of them ended (none by a failed commit), exactly k
\* ended in Success and all the others were rejected for lack of capacity.
NoOverbook ==
    \A s \in ScheduleIds :
        LET k == db[s].max_quota - seed[s]
            n == Cardinality(AttemptsOn(s))
        IN  (/\ \A a \in AttemptsOn(s) : att[a].pc = "done"
             /\ EndedWith(s, "Error500") = {}
             /\ n > k)
            => /\ Cardinality(EndedWith(s, "Success")) = k
               /\ Cardinality(EndedWith(s, "SlotFull") \cup EndedWith(s, "CreateFailed"))
                     = n - k

\* ---------------------------------------------------------------- C2
\* C2: every schedule row, and every copy of it that a request is about to
\* write, has 0 <= current_quota <= max_quota.
QuotaInvariant ==
    /\ \A s \in ScheduleIds :
          0 <= db[s].current_quota /\ db[s].current_quota <= db[s].max_quota
    /\ \A a \in Attempts :
          att[a].pc = "pending" =>
             /\ 0 <= att[a].current_quota
             /\ att[a].current_quota <= db[att[a].schedule_id].max_quota

\* a schedule that interleaved attempts filled, with more Success records
\* than it had room for
QuotaInvariantWitness ==
    \E s \in ScheduleIds :
        /\ db[s].current_quota = db[s].max_quota
        /\ Cardinality(SuccessRecords(s)) > db[s].max_quota - seed[s]

\* ---------------------------------------------------------------- C3
\* C3: for every schedule the number of Success records that reference it
\* equals its current_quota.
LedgerQuotaConsistency ==
    \A s \in ScheduleIds : Cardinality(SuccessRecords(s)) = db[s].current_quota

\* ---------------------------------------------------------------- C4
\* attempt b reads or writes the current_quota of schedule s in this step:
\* the listing SELECT of line 142, a query.get() that goes to the database,
\* or the UPDATE of the commit
Touches(b, s) ==
    \/ att[b].pc = "idle" /\ att'[b].pc = "listed" /\ s \in DOMAIN att'[b].cache
    \/ /\ att[b].pc \in {"listed", "validated"}
       /\ Stepped(b)
       /\ att[b].schedule_id = s
       /\ s \notin DOMAIN att[b].cache
    \/ att[b].pc = "pending" /\ att[b].schedule_id = s /\ db' # db

\* C4: from an attempt's capacity check until its write of the incremented
\* value, no other attempt reads or writes the current_quota of the same
\* schedule.
AtomicCheckAndIncrement ==
    [][\A a \in Attempts : \A s \in ScheduleIds :
          (att[a].pc \in {"validated", "pending"} /\ att[a].schedule_id = s)
             => \A b \in Attempts \ {a} : ~Touches(b, s)]_vars

\* ---------------------------------------------------------------- C5
\* C5: a step stores an attempt's incremented current_quota exactly when
\* it appends that attempt's Success record, and a failed commit leaves
\* both the schedules and the records as they were.
ReservationAndRecordTogether ==
    [][(\A a \in Attempts :
          LET s == att[a].schedule_id
              stored == s \in ScheduleIds /\ db' =
                          [db EXCEPT ![s].current_quota = att[a].current_quota]
              appended == records' = Append(records,
                             AppointmentRecord(att[a].member_id, s, "Success"))
          IN  (att[a].pc = "pending" /\ Ended(a))
                 => IF att'[a].outcome = "Success"
                    THEN stored /\ appended
                    ELSE db' = db /\ records' = records)
       /\ ((db' # db \/ records' # records)
              => \E a \in Attempts :
                    att[a].pc = "pending" /\ att'[a].outcome = "Success")]_vars

\* one commit went through and another one failed
ReservationAndRecordWitness ==
    \E a, b \in Attempts :
        /\ att[a].pc = "done" /\ att[a].outcome = "Success"
        /\ att[b].pc = "done" /\ att[b].outcome = "Error500"
        /\ SuccessRecords(att[a].schedule_id) # {}

\* ---------------------------------------------------------------- C6
\* C6: served alone, an attempt on an existing schedule with
\* remaining_quota > 0 whose commit goes through ends in Success, raises
\* that schedule's current_quota by exactly 1 and appends exactly one
\* Success record for its member and schedule; served alone on a full
\* schedule it is turned down as slot full.
SoloBooking ==
    [][\A a \in Attempts :
          LET s == att[a].schedule_id
          IN  (Ended(a) /\ s \in ScheduleIds /\ att'[a].outcome # "Error500")
                 => IF remaining_quota(db[s]) > 0
                    THEN /\ att'[a].outcome = "Success"
                         /\ db' = [db EXCEPT ![s].current_quota = db[s].current_quota + 1]
                         /\ records' = Append(records,
                                AppointmentRecord(att[a].member_id, s, "Success"))
                    ELSE /\ att'[a].outcome = "SlotFull"
                         /\ UNCHANGED <<db, records>>]_vars

\* one slot left: the first booking succeeded and the one that followed it
\* was turned down
SoloBookingWitness ==
    \E s \in ScheduleIds :
        /\ seed[s] = db[s].max_quota - 1 /\ db[s].current_quota = db[s].max_quota
        /\ att[1].pc = "done" /\ att[1].schedule_id = s /\ att[1].outcome = "Success"
        /\ att[2].pc = "done" /\ att[2].schedule_id = s /\ att[2].outcome = "SlotFull"
        /\ Cardinality(SuccessRecords(s)) = 1

FailedRecordWritten ==
    \A a \in Attempts :
        (/\ att[a].pc = "done"
         /\ att[a].schedule_id \in ScheduleIds
         /\ att[a].outcome \in QuotaRejections)
           => \E i \in DOMAIN records :
                 /\ records[i].schedule_id = att[a].schedule_id
                 /\ records[i].status = "Failed"

\* ---------------------------------------------------------------- C9
\* C9: no step of an attempt on a schedule id that does not exist changes
\* the appointment records or any schedule.
MissingScheduleWritesNothing ==
    [][\A a \in Attempts :
          (Stepped(a) /\ att'[a].schedule_id \notin ScheduleIds)
             => UNCHANGED <<db, records>>]_vars

\* an attempt on a missing schedule id ended after bookings were recorded
MissingScheduleWitness ==
    \E a \in Attempts :
        /\ att[a].pc = "done"
        /\ att[a].schedule_id = MissingScheduleId
        /\ records # <<>>

\* ---------------------------------------------------------------- C10
\* C10: the outcome shown for a schedule id that does not exist differs
\* from the outcome shown for an existing schedule that is full.
DistinguishableRejections ==
    \A a, b \in Attempts :
        (/\ att[a].pc = "done" /\ att[a].schedule_id = MissingScheduleId
         /\ att[b].pc = "done" /\ att[b].schedule_id \in ScheduleIds
         /\ att[b].outcome \in QuotaRejections)
           => att[a].outcome # att[b].outcome

\* ---------------------------------------------------------------- C11
\* C11: an attempt on an existing schedule that was turned down for lack of
\* capacity was told "slot full", also when it was create_appointment that
\* found the slot full.
CapacityRejectionSaysSlotFull ==
    \A a \in Attempts :
        (/\ att[a].pc = "done"
         /\ att[a].schedule_id \in ScheduleIds
         /\ att[a].outcome \in QuotaRejections)
           => att[a].outcome = "SlotFull"

\* ---------------------------------------------------------------- C12
\* C12: served alone, a member who already holds a Success record of a
\* schedule and books it again while a slot is left succeeds again: a
\* second Success record of that member and schedule is appended and
\* current_quota goes up by one more.
DuplicateBookingAccepted ==
    [][\A a \in Attempts :
          LET s == att[a].schedule_id
              again == AppointmentRecord(att[a].member_id, s, "Success")
          IN  (/\ Ended(a)
               /\ s \in ScheduleIds
               /\ \E i \in DOMAIN records : records[i] = again
               /\ remaining_quota(db[s]) > 0
               /\ att'[a].outcome # "Error500")
                 => /\ att'[a].outcome = "Success"
                    /\ records' = Append(records, again)
                    /\ db'[s].current_quota = db[s].current_quota + 1]_vars

\* two bookings of one schedule by one member, made one after the other
\* with two slots left, both succeeded
DuplicateBookingWitness ==
    \E s \in ScheduleIds : \E m \in Members :
        /\ seed[s] <= db[s].max_quota - 2
        /\ db[s].current_quota = seed[s] + 2
        /\ att[1].pc = "done" /\ att[1].outcome = "Success"
        /\ att[2].pc = "done" /\ att[2].outcome = "Success"
        /\ Len(records) >= 2
        /\ records[1] = AppointmentRecord(m, s, "Success")
        /\ records[2] = AppointmentRecord(m, s, "Success")

\* ---------------------------------------------------------------- C13
\* C13: the history of a member lists every record of that member once and
\* no record of another member, the later appended record before the
\* earlier one; all histories together hold as many records as bookings
\* ended in Success.
HistoryRoundTrip ==
    /\ \A m \in Members : \A h \in {my_appointments(m)} :
          /\ {h[k] : k \in 1..Len(h)} =
                {i \in DOMAIN records : records[i].member_id = m}
          /\ \A j, k \in 1..Len(h) : j < k => h[j] > h[k]
    /\ Len(records) =
          Cardinality({a \in Attempts : att[a].pc = "done" /\ att[a].outcome = "Success"})

\* a member booked twice: the second booking comes first in the history
HistoryRoundTripWitness ==
    \E m \in Members : my_appointments(m) = <<2, 1>>

\* ---------------------------------------------------------------- C14
\* C14: every appointment record carries the member_id of a row of the
\* members table and the schedule_id of a row of the schedules table.
ReferentialIntegrity ==
    \A i \in DOMAIN records :
        /\ \E m \in Members : Member(m).member_id = records[i].member_id
        /\ records[i].schedule_id \in DOMAIN db

\* the browser booked a schedule and was refused a schedule_id that does
\* not exist
ReferentialIntegrityWitness ==
    /\ records # <<>>
    /\ \E a \in Attempts :
          /\ att[a].pc = "done"
          /\ att[a].schedule_id = MissingScheduleId
          /\ att[a].outcome = "SlotFull"

\* ---------------------------------------------------------------- C15
\* C15: no step removes an appointment record or changes its member,
\* schedule, status or place in the order of creation; the ledger only
\* grows.
AppendOnlyLedger ==
    [][/\ Len(records') >= Len(records)
       /\ \A i \in DOMAIN records :
             /\ i \in DOMAIN records'
             /\ records'[i] = records[i]
             /\ created_at(i) <= Len(records')]_vars

\* a booking was committed to a ledger that already held a record, and the
\* browser went on to log out
AppendOnlyLedgerWitness ==
    /\ Len(records) >= 2
    /\ client.flash = "LoggedOut"

\* ---------------------------------------------------------------- C16
\* C16: a step of an attempt on schedule A changes no other schedule's
\* current_quota or max_quota; an attempt about to write is never kept
\* waiting by an attempt on another schedule; and no attempt ends in an
\* error because an attempt on another schedule was writing.
SchedulesIndependent ==
    [][\A a \in Attempts :
          /\ Stepped(a) =>
                \A s \in ScheduleIds \ {att'[a].schedule_id} : db'[s] = db[s]
          /\ att[a].pc = "pending" =>
                \A b \in LockHolders : att[b].schedule_id = att[a].schedule_id
          /\ (Ended(a) /\ att'[a].outcome = "Error500") =>
                \A b \in LockHolders : att[b].schedule_id = att[a].schedule_id]_vars

\* ---------------------------------------------------------------- C17
\* C17: a login with an email no member has and a login with a member's
\* email and a wrong password get the same answer: verify_login returns no
\* member, the handler flashes the same message and the session stays as
\* it was.
LoginIndistinguishable ==
    [][LET e == client'.email
           p == client'.password
           unknown == e # 0 /\ \A m \in Members : Member(m).email # e
           wrong == \E m \in Members :
                       /\ Member(m).email = e
                       /\ Member(m).password_hash # generate_password_hash(p)
       IN  (unknown \/ wrong) =>
              /\ verify_login(e, p) = 0
              /\ client'.flash = "InvalidCredentials"
              /\ client'.member_id = client.member_id]_vars

\* a logged-in browser posted a member's email with a wrong password
LoginWrongPasswordWitness ==
    /\ client.email \in Members
    /\ client.password # client.email
    /\ client.flash = "InvalidCredentials"
    /\ client.member_id # 0

\* ---------------------------------------------------------------- C18
\* C18: the booking page of a date lists every schedule of that date once,
\* no schedule of another date, in ascending order of time slot.
ListingByDateInSlotOrder ==
    client.target_date # 0 =>
        LET l == client.schedules
        IN  /\ {l[k] : k \in 1..Len(l)} =
                  {s \in ScheduleIds : db[s].date = client.target_date}
            /\ \A j, k \in 1..Len(l) : j < k => l[j] # l[k]
            /\ \A j, k \in 1..Len(l) :
                  j < k => db[l[j]].time_slot <= db[l[k]].time_slot

\* ---------------------------------------------------------------- C19
\* the outcomes a booking attempt ends with: the two refusals (missing or
\* full schedule, from validate_quota and from create_appointment), the
\* booking, and the failed commit
TerminalOutcomes == {"SlotFull", "CreateFailed", "Success", "Error500"}

\* C19: every attempt the server took in ends with one of the terminal
\* outcomes; an attempt that validate_quota or create_appointment turns
\* down for a missing or full schedule ends with that refusal as its
\* outcome, not with a server error and not unanswered.
EveryAttemptEnds ==
    \A a \in Attempts :
        /\ (att[a].pc \notin {"idle", "done"})
              ~> (att[a].pc = "done" /\ att[a].outcome \in TerminalOutcomes)
        /\ (att[a].pc = "listed" /\ ~validate_quota(a))
              ~> (att[a].pc = "done" /\ att[a].outcome = "SlotFull")
        /\ (att[a].pc = "validated" /\ ~create_appointment_accepts(a))
              ~> (att[a].pc = "done" /\ att[a].outcome = "CreateFailed")

\* two attempts on the last slot of a schedule both passed validate_quota;
\* one booked it, the other was refused by create_appointment
EveryAttemptEndsWitness ==
    \E a, b \in Attempts :
        /\ att[a].pc = "done" /\ att[a].outcome = "Success"
        /\ att[b].pc = "done" /\ att[b].outcome = "CreateFailed"
        /\ att[a].schedule_id = att[b].schedule_id

\* ---------------------------------------------------------------- C20
\* C20: in a sequence of login, logout and booking requests of a browser,
\* a member_id enters the session only with a login form that carries the
\* member's email and password, and a logout empties the session; a
\* booking request is taken in with the session's member_id, and the
\* record it creates carries that member_id; a booking request sent with
\* no member_id in the session is answered "login required" and changes
\* neither a quota nor the records.
BookingRequiresLogin ==
    [][/\ (client'.member_id # client.member_id /\ client'.member_id # 0) =>
             \E m \in Members :
                 /\ m = client'.member_id
                 /\ Member(m).email = client'.email
                 /\ check_password_hash(Member(m).password_hash, client'.password)
       /\ (client'.flash = "LoggedOut" /\ client' # client) => client'.member_id = 0
       /\ \A a \in Attempts :
             (att[a].pc = "idle" /\ att'[a].pc # "idle") =>
                 IF client.member_id = 0
                 THEN /\ att'[a].pc = "done"
                      /\ att'[a].outcome = "LoginRequired"
                      /\ UNCHANGED <<db, records>>
                 ELSE /\ att'[a].pc = "listed"
                      /\ att'[a].member_id = client.member_id
       /\ records' # records =>
             \E a \in Attempts :
                 /\ att[a].pc = "pending"
                 /\ att[a].member_id # 0
                 /\ att[a].member_id = client.member_id
                 /\ records' = Append(records,
                                      AppointmentRecord(client.member_id,
                                                        att[a].schedule_id, "Success"))]_vars

\* the browser logged in and booked, logged out, and its next booking
\* request was sent back to the login page
BookingRequiresLoginWitness ==
    /\ att[1].pc = "done" /\ att[1].outcome = "Success"
    /\ att[2].pc = "done" /\ att[2].outcome = "LoginRequired"
    /\ Len(records) = 1
    /\ client.member_id = 0

\* ---------------------------------------------------------------- typing
TypeOK ==
    /\ \A s \in ScheduleIds : db[s].max_quota = MaxQuota
    /\ \A a \in Attempts :
          att[a].pc \in {"idle", "listed", "validated", "pending", "flushed",
                         "done"}
    /\ client.member_id \in Members \cup {0}
    /\ client.flash \in {"none", "LoginOk", "InvalidCredentials", "LoggedOut",
                         "LoginRequired"}
====
